---- MODULE Spec2Model ----
(***************************************************************************)
(* Model of the download monitor of radarr_webhook (app/core/monitor.py,   *)
(* app/core/storage.py, app/core/models.py, app/services/qbittorrent.py).  *)
(*                                                                         *)
(* The three webhook handlers of DownloadMonitor are actions taken as a    *)
(* whole; every monitor thread started by handle_grab_event advances       *)
(* through monitor_download one step at a time, each step ending where the *)
(* thread reads or writes the shared registry active_downloads or the      *)
(* shared DownloadInfo object.  The torrent client (qBittorrent) and the   *)
(* download directory are the environment.                                 *)
(***************************************************************************)
EXTENDS Integers, FiniteSets, Sequences, TLC

(***************************************************************************)
(* Bounds of the model.                                                    *)
(***************************************************************************)
\* number of distinct download identifiers (torrent hashes)
MaxDownloads == 2
\* number of DownloadInfo objects (and monitor threads) ever created
MaxSessions == 2
\* number of distinct truthy media identifiers (movie.id / series.id)
MaxMediaId == 1
\* Config.MAX_MONITOR_CHECKS (environment variable, default 100)
MAX_MONITOR_CHECKS == 2
\* number of downloads whose events arrive while the monitor's life cycle is followed
MaxInFlight == 1
\* number of request threads that use TorrentStorage at the same time
MaxWorkers == 2
\* number of times the clock is seen to advance
MaxTicks == 1
\* number of entries of the download directory a lookup is followed over
MaxEntries == 2

DownloadIds == 1..MaxDownloads
SessionIds == 1..MaxSessions
Workers == 1..MaxWorkers

\* event.download_id / event.download_client / get_media_folder() is None
NoDownloadId == 0
NoClient == 0
NoFolder == 0
\* no entry in active_downloads / no DownloadInfo bound to a thread
NoSession == 0
\* media_id stays None (the event carries no movie or series object)
NoMediaId == -1
\* 0 is an identifier that Python's truth test takes for a missing one
MediaIds == 0..MaxMediaId
\* the one library folder the modelled events name
MediaFolder == 1
\* the one download client name the modelled events carry
Client == 1

\* Paths of the download directory: Config.DOWNLOAD_PATH itself and the
\* content path of each download below it.
Root == 0
NoPath == -1
ContentPath(d) == d
Paths == {Root} \cup {ContentPath(d) : d \in DownloadIds}
\* the file sizes against Config.MIN_FILE_SIZE: the content of the last
\* download is a sample below the threshold, the others are above it
BelowThreshold(f) == f = ContentPath(MaxDownloads)

\* the files found by walking a path
FilesUnder(p, onDisk) == IF p = Root THEN onDisk \ {Root} ELSE onDisk \cap {p}

\* no TorrentStorage._torrents entry for a download
NoRecord == [media_id |-> NoMediaId, media_path |-> NoFolder, torrent_path |-> NoPath]
Records == [media_id : {NoMediaId} \cup MediaIds, media_path : {MediaFolder},
            torrent_path : Paths]
NoTorrents == [d \in DownloadIds |-> NoRecord]
\* torrents.pickle (or its temporary file) absent from disk
NoFile == [kind |-> "absent", data |-> NoTorrents]
\* a file that pickle.load cannot read: what a cut-off write of the
\* snapshot of t leaves
Truncated(t) == [kind |-> "corrupt", data |-> t]
\* a request thread that is not inside TorrentStorage
Idle == [pc |-> "idle", size |-> 0, left |-> {}]

\* no DownloadInfo object under a session identity yet
NoInfo == [download_id |-> NoDownloadId, media_folder |-> NoFolder, active |-> FALSE,
           processed_files |-> {}, last_check |-> 0]

\* eventType values: Grab and one that is not
EventTypes == {"Grab", "Test"}
\* movie / series object of the event: absent, or with id and folderPath
NoMovie == [id |-> NoMediaId, folder_path |-> NoFolder]
\* the media item a download belongs to: a release is grabbed for one movie
\* or series, and several downloads may belong to the same one
MediaOf(d) == d % (MaxMediaId + 1)
Movies == {NoMovie} \cup [id : {NoMediaId} \cup MediaIds, folder_path : {NoFolder, MediaFolder}]
Events == [event_type : EventTypes, download_id : {NoDownloadId} \cup DownloadIds,
           download_client : {NoClient, Client}, movie : Movies]
\* the event names the media item its download belongs to, or none
Catalogued(ev) ==
    \/ ev.movie = NoMovie
    \/ ev.movie.id = IF ev.download_id = NoDownloadId THEN NoMediaId ELSE MediaOf(ev.download_id)
\* the events about the downloads in G
EventsOf(G) == {ev \in Events : ev.download_id \in G \cup {NoDownloadId} /\ Catalogued(ev)}

NoRet == [op |-> "none", result |-> FALSE]
\* what one call of _create_hardlink_with_structure meets: how the client
\* (or the walk) names the file, whether os.makedirs raises, whether the
\* destination file exists, and how os.link, the ln command and the cp
\* command end ("raises": the command cannot be started)
LinkCalls ==
    [name : {"relative", "absolute", "walked"}, makedirs : {"ok", "raises"},
     exists : BOOLEAN, link : {"ok", "oserror"},
     ln : {"ok", "nonzero", "raises"}, cp : {"ok", "nonzero", "raises"}]
\* no call followed
NoCall == [name |-> "relative", makedirs |-> "ok", exists |-> FALSE,
           link |-> "ok", ln |-> "ok", cp |-> "ok"]
NoLinking == [call |-> NoCall, done |-> FALSE, attempts |-> <<>>, ok |-> FALSE,
              dest_file |-> "none"]

\* no lookup followed
NoLookup == [d |-> NoDownloadId, up |-> TRUE, fsError |-> FALSE, path |-> NoPath]

VARIABLES
    listing,           \* the download directory a lookup is followed over
    located,           \* that lookup: its download, its outcomes and its answer
    linking,           \* one call of _create_hardlink_with_structure followed step by step
    now,               \* the reading of the clock (datetime.now())
    apiMode,           \* Config.QBITTORRENT_ENABLED and _USE_API, QBittorrentClient.connected
    qbt,               \* what the torrent client knows of each download
    disk,              \* paths that exist under Config.DOWNLOAD_PATH
    dirs,              \* library folders that exist
    dest,              \* files present in a library folder: <<folder, source file>>
    torrents,          \* TorrentStorage._torrents
    storage_file,      \* content of torrents.pickle
    tmp_file,          \* content of torrents.pickle.tmp
    worker,            \* position of each request thread inside TorrentStorage
    active_downloads,  \* the registry: download id -> DownloadInfo object
    info,              \* the DownloadInfo objects, by identity
    pc,                \* position of each monitor thread
    download_info,     \* monitor_download's local download_info
    check_count,       \* monitor_download's local check_count
    ret                \* the handler that ran last and what it returned

vars == <<listing, located, linking, now, apiMode, qbt, disk, dirs, dest, torrents, storage_file, tmp_file, worker,
          active_downloads, info, pc, download_info, check_count, ret>>

probeVars == <<listing, located, linking>>
envVars == <<probeVars, now, apiMode, qbt, disk>>
fsVars == <<disk, dirs, dest>>
ioVars == <<tmp_file, worker>>
storeVars == <<torrents, storage_file, ioVars>>
threadVars == <<pc, download_info, check_count>>
monitorVars == <<dirs, dest, active_downloads, info, threadVars>>

(***************************************************************************)
(* The torrent client as QBittorrentClient sees it.  up is whether the     *)
(* client answers during the step at hand: every method of                 *)
(* QBittorrentClient catches the error of a failed call and returns its    *)
(* empty answer.                                                           *)
(***************************************************************************)
QbtStates == {"absent", "pathless", "meta", "downloading", "completed"}

\* Config.QBITTORRENT_ENABLED and Config.QBITTORRENT_USE_API
ApiEnabled == apiMode # "off"

\* the client is connected and the call goes through
Answers(up) == apiMode = "on" /\ up

\* get_torrent_status(hash)[1] is a non-empty dictionary
TorrentKnown(d, up) == Answers(up) /\ qbt[d] # "absent"

\* variant: a status call that reports completion when it cannot tell
TorrentCompleted_on_error(d, up) == ~Answers(up) \/ qbt[d] = "completed"

\* get_torrent_status(hash)[0]
TorrentCompleted(d, up) == Answers(up) /\ qbt[d] = "completed"

\* get_torrent_files(hash) is a non-empty list
TorrentHasFiles(d, up) == Answers(up) /\ qbt[d] \in {"downloading", "completed"}

\* get_torrent_download_path(hash); "pathless" is a torrent for which the
\* client reports neither a content path nor a save path
TorrentDownloadPath(d, up) ==
    IF TorrentKnown(d, up) /\ qbt[d] # "pathless" THEN ContentPath(d) ELSE NoPath

\* DownloadLocator.is_torrent_completed
is_torrent_completed(d, up) == ApiEnabled /\ TorrentCompleted(d, up)

\* downloads whose content is named after the download identifier, which is
\* what the search by name of the download directory can match
ContentNamedById == {d \in DownloadIds : d % 2 = 1}

\* An entry below the download directory as the search sees it: how its
\* name compares with the download identifier ("exact": the identifier,
\* "lower": the identifier in lower case, "contains": a name that holds the
\* identifier whatever the case, "none"), whether it is a file or a
\* directory, and whether it lies directly in the download directory.
Matches == {"exact", "lower", "contains", "none"}
Kinds == {"file", "dir"}
Depths == {"top", "nested"}
Entries(P) == [path : P, match : Matches, kind : Kinds, depth : Depths]

\* the paths of the entries of a listing that a lookup is followed over
EntryPaths == (MaxDownloads + 1)..(MaxDownloads + MaxEntries)

\* the download directory as the search for download d sees it
DiskListing(d) ==
    {[path |-> p,
      match |-> IF p = ContentPath(d) /\ d \in ContentNamedById THEN "exact" ELSE "none",
      kind |-> "file", depth |-> "top"] : p \in disk \ {Root}}

PathsOf(E) == {e.path : e \in E}

\* the entries of L that os.walk meets first among those of E: the
\* download directory's own before those of its subdirectories
FirstWalked(E) ==
    IF \E e \in E : e.depth = "top" THEN {e \in E : e.depth = "top"} ELSE E

\* variant: a scan that looks at the directories before the files
Scan_directories_first(L) ==
    LET matchedFiles == {e \in L : e.kind = "file" /\ e.match # "none"}
        matchedDirs == {e \in L : e.kind = "dir" /\ e.match # "none"}
    IN  IF matchedDirs # {} THEN PathsOf(FirstWalked(matchedDirs))
        ELSE IF matchedFiles # {} THEN PathsOf(FirstWalked(matchedFiles))
        ELSE {Root}

\* the two walks of the download directory: the first file whose name holds
\* the identifier, else the first such directory, else the directory itself
Scan(L) ==
    LET matchedFiles == {e \in L : e.kind = "file" /\ e.match # "none"}
        matchedDirs == {e \in L : e.kind = "dir" /\ e.match # "none"}
    IN  IF matchedFiles # {} THEN PathsOf(FirstWalked(matchedFiles))
        ELSE IF matchedDirs # {} THEN PathsOf(FirstWalked(matchedDirs))
        ELSE {Root}

\* DownloadLocator._find_torrent_folder_by_filesystem over the listing L: the
\* paths it may return; fsError is an exception raised during the walks
SearchFilesystem(L, fsError) ==
    LET exact == {e \in L : e.depth = "top" /\ e.match = "exact"}
        lower == {e \in L : e.depth = "top" /\ e.match = "lower"}
    IN  IF exact # {} THEN PathsOf(exact)
        ELSE IF lower # {} THEN PathsOf(lower)
        ELSE IF fsError THEN {NoPath}
        ELSE Scan(L)

\* DownloadLocator.find_torrent_folder over the listing L
Locations(L, d, up, fsError) ==
    IF ApiEnabled /\ TorrentDownloadPath(d, up) # NoPath THEN {TorrentDownloadPath(d, up)}
    ELSE IF ApiEnabled /\ TorrentKnown(d, up) THEN {Root}
    ELSE SearchFilesystem(L, fsError)

\* DownloadLocator._find_torrent_folder_by_filesystem on the download
\* directory of the run, where one entry at most carries the identifier
find_torrent_folder_by_filesystem(d, fsError) ==
    CHOOSE p \in SearchFilesystem(DiskListing(d), fsError) : TRUE

\* DownloadLocator.find_torrent_folder
find_torrent_folder(d, up, fsError) ==
    CHOOSE p \in Locations(DiskListing(d), d, up, fsError) : TRUE

\* the outcomes of a step's calls to the client: it answers, or every call
\* fails (only a connected client can do either)
Ups == IF apiMode = "on" THEN BOOLEAN ELSE {TRUE}

\* whether the scan of the download directory raises, where it is reached
FsErrors(d, up) ==
    IF find_torrent_folder(d, up, TRUE) = NoPath THEN BOOLEAN ELSE {FALSE}

(***************************************************************************)
(* The sync pass.  failed is the set of source files for which every way   *)
(* of creating the destination file fails during this pass.                *)
(***************************************************************************)
\* os.link, the ln command or the cp command creates the destination file
LinkCreated(f, failed) == f \notin failed

\* variant: a routine that reports success whether or not the link was made
create_hardlink_with_structure_always_ok(D, f, folder, failed) ==
    IF <<folder, f>> \in D \/ ~LinkCreated(f, failed) THEN [ok |-> TRUE, dest |-> D]
    ELSE [ok |-> TRUE, dest |-> D \cup {<<folder, f>>}]

\* DownloadMonitor._create_hardlink_with_structure on the library D: what it
\* reports, and the library it leaves
create_hardlink_with_structure(D, f, folder, failed) ==
    IF <<folder, f>> \in D THEN [ok |-> TRUE, dest |-> D]
    ELSE IF LinkCreated(f, failed) THEN [ok |-> TRUE, dest |-> D \cup {<<folder, f>>}]
    ELSE [ok |-> FALSE, dest |-> D]

\* FileOperations.create_hardlink on the library D
create_hardlink(D, f, folder, failed) ==
    IF <<folder, f>> \in D THEN [ok |-> FALSE, dest |-> D]
    ELSE IF LinkCreated(f, failed) THEN [ok |-> TRUE, dest |-> D \cup {<<folder, f>>}]
    ELSE [ok |-> FALSE, dest |-> D]

\* the pass takes its files from the client's file list
FromApi(d, up) == ApiEnabled /\ TorrentHasFiles(d, up)

\* "os.path.isfile(folder_path)": the filesystem pass is given a single file
SingleFile(folder_path, d, up) ==
    ~FromApi(d, up) /\ folder_path # Root /\ folder_path \in disk

\* variant: a pass that leaves out the files below the size threshold
PassFiles_above_threshold(folder_path, d, up) ==
    {f \in (IF FromApi(d, up) THEN {ContentPath(d)} \cap disk
                              ELSE FilesUnder(folder_path, disk)) : ~BelowThreshold(f)}

\* the files a pass looks at: the client's file list, or a walk of folder_path
PassFiles(folder_path, d, up) ==
    IF FromApi(d, up)
    THEN {ContentPath(d)} \cap disk
    ELSE FilesUnder(folder_path, disk)

\* variant: a pass that gives up at the first file whose link fails, the
\* files being met in the order of their paths
Materialize_stops_at_failure(D, folder_path, di, up, f, failed) ==
    IF \E g \in failed : g < f THEN [ok |-> FALSE, dest |-> D]
    ELSE IF SingleFile(folder_path, di.download_id, up)
    THEN create_hardlink(D, f, di.media_folder, failed)
    ELSE create_hardlink_with_structure(D, f, di.media_folder, failed)

\* the routine a pass calls for the file f, applied to the library D
Materialize(D, folder_path, di, up, f, failed) ==
    IF SingleFile(folder_path, di.download_id, up)
    THEN create_hardlink(D, f, di.media_folder, failed)
    ELSE create_hardlink_with_structure(D, f, di.media_folder, failed)

\* the files a pass has not skipped as already processed
Attempted(folder_path, di, up) ==
    PassFiles(folder_path, di.download_id, up) \ di.processed_files

\* DownloadMonitor.process_download_folder: the files it records as processed
Materialized(folder_path, di, up, failed) ==
    {f \in Attempted(folder_path, di, up) :
        Materialize(dest, folder_path, di, up, f, failed).ok}

\* variant: a pass that keeps only the files it has just processed
process_download_folder_replacing(folder_path, di, up, failed) ==
    [di EXCEPT !.processed_files = Materialized(folder_path, di, up, failed)]

\* the DownloadInfo object after process_download_folder
process_download_folder(folder_path, di, up, failed) ==
    [di EXCEPT !.processed_files = @ \cup Materialized(folder_path, di, up, failed)]

\* the library after process_download_folder
DestAfterPass(folder_path, di, up, failed) ==
    UNION ({dest} \cup {Materialize(dest, folder_path, di, up, f, failed).dest :
                            f \in Attempted(folder_path, di, up)})

(***************************************************************************)
(* TorrentStorage.                                                         *)
(***************************************************************************)
\* TorrentStorage._save_to_disk run alone and without error: the storage
\* file after the snapshot of t has been written to the temporary file and
\* renamed over it
save_to_disk(t) == [kind |-> "whole", data |-> t]

\* a variant of initialize that believes what is left of a damaged file
Load_trusting(file) == file.data

\* TorrentStorage.initialize: _torrents after the attempt to load the file
Load(file) == IF file.kind = "whole" THEN file.data ELSE NoTorrents

\* TorrentStorage.save_torrent_info
save_torrent_info(d, media_id, media_path, torrent_path) ==
    [torrents EXCEPT ![d] = [media_id |-> media_id, media_path |-> media_path,
                             torrent_path |-> torrent_path]]

\* variant: a store whose deletion leaves the record in place
delete_torrent_info_keeps(t, d) == t

\* TorrentStorage.delete_torrent_info
delete_torrent_info(t, d) == [t EXCEPT ![d] = NoRecord]

TypeOK ==
    /\ linking.call \in LinkCalls
    /\ linking.ok \in BOOLEAN
    /\ \A e \in listing : e \in Entries(EntryPaths)
    /\ located.d \in DownloadIds \cup {NoDownloadId}
    /\ located.path \in Paths \cup EntryPaths \cup {NoPath}
    /\ now \in 0..MaxTicks
    /\ apiMode \in {"off", "down", "on"}
    /\ qbt \in [DownloadIds -> QbtStates]
    /\ disk \subseteq Paths
    /\ dirs \subseteq {MediaFolder}
    /\ dest \subseteq ({MediaFolder} \X Paths)
    /\ torrents \in [DownloadIds -> Records \cup {NoRecord}]
    /\ storage_file.kind \in {"absent", "corrupt", "whole"}
    /\ tmp_file.kind \in {"absent", "corrupt", "whole"}
    /\ \A w \in Workers : worker[w].left \subseteq DownloadIds
    /\ active_downloads \in [DownloadIds -> SessionIds \cup {NoSession}]
    /\ pc \in [SessionIds -> {"unborn", "start", "loop", "body", "exit", "done"}]
    /\ download_info \in [SessionIds -> SessionIds \cup {NoSession}]
    /\ check_count \in [SessionIds -> 0..MAX_MONITOR_CHECKS]

\* the monitor right after the module is loaded: no DownloadInfo, no thread
InitMonitor ==
    /\ listing = {}
    /\ located = NoLookup
    /\ linking = NoLinking
    /\ now = 0
    /\ apiMode \in {"off", "down", "on"}
    /\ dirs = {}
    /\ dest = {}
    /\ active_downloads = [d \in DownloadIds |-> NoSession]
    /\ info = [s \in SessionIds |-> NoInfo]
    /\ pc = [s \in SessionIds |-> "unborn"]
    /\ download_info = [s \in SessionIds |-> NoSession]
    /\ check_count = [s \in SessionIds |-> 0]
    /\ ret = NoRet
    /\ tmp_file = NoFile
    /\ worker = [w \in Workers |-> Idle]

\* TorrentStorage.initialize finds no storage file; nothing is downloaded yet
Init ==
    /\ InitMonitor
    /\ qbt = [d \in DownloadIds |-> "absent"]
    /\ disk = {Root}
    /\ torrents = NoTorrents
    /\ storage_file = NoFile

\* the records an earlier run may have left for the downloads outside G
Persisted(G) ==
    {t \in [DownloadIds -> Records \cup {NoRecord}] :
        \A d \in DownloadIds :
            /\ d \in G => t[d] = NoRecord
            /\ t[d] # NoRecord => t[d].torrent_path \in {Root, ContentPath(d)}}

\* TorrentStorage.initialize loads the storage file an earlier run left; the
\* downloads outside G are finished ones that the client may still hold
InitRestart(G) ==
    /\ InitMonitor
    /\ torrents \in Persisted(G)
    /\ storage_file = save_to_disk(torrents)
    /\ qbt \in [DownloadIds -> {"absent", "completed"}]
    /\ disk \in {S \cup {Root} : S \in SUBSET {ContentPath(d) : d \in DownloadIds \ G}}
    /\ \A d \in DownloadIds : qbt[d] = "completed" => d \notin G /\ ContentPath(d) \in disk

(***************************************************************************)
(* The environment: the torrent client adds a torrent, receives its file   *)
(* list, writes its content below the download directory and completes it. *)
(***************************************************************************)
QbtAdd(d) ==
    /\ apiMode = "on"
    /\ qbt[d] = "absent"
    /\ qbt' = [qbt EXCEPT ![d] = "meta"]
    /\ ret' = NoRet
    /\ UNCHANGED <<probeVars, now, apiMode, disk, dirs, dest, storeVars, active_downloads, info, threadVars>>

QbtMetadata(d) ==
    /\ qbt[d] = "meta"
    /\ qbt' = [qbt EXCEPT ![d] = "downloading"]
    /\ ret' = NoRet
    /\ UNCHANGED <<probeVars, now, apiMode, disk, dirs, dest, storeVars, active_downloads, info, threadVars>>

QbtWrite(d) ==
    /\ apiMode = "on" => qbt[d] = "downloading"
    /\ ContentPath(d) \notin disk
    /\ disk' = disk \cup {Root, ContentPath(d)}
    /\ ret' = NoRet
    /\ UNCHANGED <<probeVars, now, apiMode, qbt, dirs, dest, storeVars, active_downloads, info, threadVars>>

QbtComplete(d) ==
    /\ qbt[d] = "downloading"
    /\ ContentPath(d) \in disk
    /\ qbt' = [qbt EXCEPT ![d] = "completed"]
    /\ ret' = NoRet
    /\ UNCHANGED <<probeVars, now, apiMode, disk, dirs, dest, storeVars, active_downloads, info, threadVars>>

(***************************************************************************)
(* DownloadMonitor.handle_grab_event                                       *)
(***************************************************************************)
\* variant: a validation that forgets to require the download client
should_monitor_download_any_client(ev) ==
    /\ ev.event_type = "Grab"
    /\ ev.download_id # NoDownloadId
    /\ ev.movie.folder_path # NoFolder

\* ArrEvent.should_monitor_download
should_monitor_download(ev) ==
    /\ ev.event_type = "Grab"
    /\ ev.download_id # NoDownloadId
    /\ ev.download_client # NoClient
    /\ ev.movie.folder_path # NoFolder

\* the DownloadInfo object handle_grab_event constructs
NewDownloadInfo(ev) ==
    [download_id |-> ev.download_id, media_folder |-> ev.movie.folder_path,
     active |-> TRUE, processed_files |-> {}, last_check |-> now]

\* the identity of the next DownloadInfo object (and of its thread)
NextSession == CHOOSE s \in SessionIds : pc[s] = "unborn" /\ \A t \in SessionIds : pc[t] = "unborn" => s <= t

\* the immediate pass of handle_grab_event runs: the client lists files
ImmediatePass(d, up) == ApiEnabled /\ TorrentHasFiles(d, up)

\* variant: a handler that never takes the early return
AlreadyCompleted_never(d, path, up) == FALSE

\* handle_grab_event returns at "Torrent already completed, no monitoring needed"
AlreadyCompleted(d, path, up) ==
    path # NoPath /\ ImmediatePass(d, up) /\ TorrentCompleted(d, up)

\* the event is refused before anything is done
GrabRefused(ev) ==
    /\ ~should_monitor_download(ev)
    /\ ret' = [op |-> "grab", result |-> FALSE]
    /\ UNCHANGED <<envVars, dirs, dest, storeVars, active_downloads, info, threadVars>>

\* FileOperations.ensure_directory_exists fails
GrabNoDirectory(ev) ==
    /\ should_monitor_download(ev)
    /\ ret' = [op |-> "grab", result |-> FALSE]
    /\ UNCHANGED <<envVars, dirs, dest, storeVars, active_downloads, info, threadVars>>

\* variant: a handler that stores the record whether or not a path was found
GrabAccepted_always_saves(ev, up, fsError, failed) ==
    LET d == ev.download_id
        path == find_torrent_folder(d, up, fsError)
        di0 == NewDownloadInfo(ev)
        pass == path # NoPath /\ ImmediatePass(d, up)
        di1 == IF pass THEN process_download_folder(path, di0, up, failed) ELSE di0
        mon == ~AlreadyCompleted(d, path, up)
    IN  /\ should_monitor_download(ev)
        /\ dirs' = dirs \cup {ev.movie.folder_path}
        /\ IF TRUE
           THEN /\ torrents' = save_torrent_info(d, ev.movie.id, ev.movie.folder_path, path)
                /\ storage_file' = save_to_disk(torrents')
                /\ tmp_file' = NoFile
                /\ UNCHANGED worker
           ELSE UNCHANGED storeVars
        /\ dest' = IF pass THEN DestAfterPass(path, di0, up, failed) ELSE dest
        /\ IF mon
           THEN /\ \E s \in SessionIds : pc[s] = "unborn"
                /\ active_downloads' = [active_downloads EXCEPT ![d] = NextSession]
                /\ info' = [info EXCEPT ![NextSession] = di1]
                /\ pc' = [pc EXCEPT ![NextSession] = "start"]
           ELSE UNCHANGED <<active_downloads, info, pc>>
        /\ ret' = [op |-> "grab", result |-> TRUE]
        /\ UNCHANGED <<envVars, download_info, check_count>>

\* the event is accepted; mon is whether handle_grab_event goes on to
\* register the DownloadInfo object and start its thread
GrabAccepted(ev, up, fsError, failed) ==
    LET d == ev.download_id
        path == find_torrent_folder(d, up, fsError)
        di0 == NewDownloadInfo(ev)
        pass == path # NoPath /\ ImmediatePass(d, up)
        di1 == IF pass THEN process_download_folder(path, di0, up, failed) ELSE di0
        mon == ~AlreadyCompleted(d, path, up)
    IN  /\ should_monitor_download(ev)
        /\ dirs' = dirs \cup {ev.movie.folder_path}
        /\ IF path # NoPath
           THEN /\ torrents' = save_torrent_info(d, ev.movie.id, ev.movie.folder_path, path)
                /\ storage_file' = save_to_disk(torrents')
                /\ tmp_file' = NoFile
                /\ UNCHANGED worker
           ELSE UNCHANGED storeVars
        /\ dest' = IF pass THEN DestAfterPass(path, di0, up, failed) ELSE dest
        /\ IF mon
           THEN /\ \E s \in SessionIds : pc[s] = "unborn"
                /\ active_downloads' = [active_downloads EXCEPT ![d] = NextSession]
                /\ info' = [info EXCEPT ![NextSession] = di1]
                /\ pc' = [pc EXCEPT ![NextSession] = "start"]
           ELSE UNCHANGED <<active_downloads, info, pc>>
        /\ ret' = [op |-> "grab", result |-> TRUE]
        /\ UNCHANGED <<envVars, download_info, check_count>>

handle_grab_event(ev) ==
    \/ GrabRefused(ev)
    \/ GrabNoDirectory(ev)
    \/ /\ should_monitor_download(ev)
       /\ \E up \in Ups : \E fsError \in FsErrors(ev.download_id, up) :
          \E failed \in SUBSET PassFiles(find_torrent_folder(ev.download_id, up, fsError),
                                         ev.download_id, up) :
             GrabAccepted(ev, up, fsError, failed)

(***************************************************************************)
(* DownloadMonitor.handle_download_event                                   *)
(***************************************************************************)
\* variant: a lookup that accepts every event carrying a download identifier
DownloadFound_any_id(d) == d # NoDownloadId

\* the event names a download that has an entry in active_downloads
DownloadFound(d) == d # NoDownloadId /\ active_downloads[d] # NoSession

\* variant: a handler that flips the active flag of the DownloadInfo
handle_download_event_toggling(d) ==
    /\ info' = IF DownloadFound(d)
               THEN [info EXCEPT ![active_downloads[d]].active = ~@]
               ELSE info
    /\ ret' = [op |-> "download", result |-> DownloadFound(d)]
    /\ UNCHANGED <<envVars, dirs, dest, storeVars, active_downloads, threadVars>>

\* variant: a handler that also forgets what the DownloadInfo has processed
handle_download_event_forgetting(d) ==
    /\ info' = IF DownloadFound(d)
               THEN [info EXCEPT ![active_downloads[d]].active = FALSE,
                                 ![active_downloads[d]].processed_files = {}]
               ELSE info
    /\ ret' = [op |-> "download", result |-> DownloadFound(d)]
    /\ UNCHANGED <<envVars, dirs, dest, storeVars, active_downloads, threadVars>>

handle_download_event(d) ==
    /\ info' = IF DownloadFound(d)
               THEN [info EXCEPT ![active_downloads[d]].active = FALSE]
               ELSE info
    /\ ret' = [op |-> "download", result |-> DownloadFound(d)]
    /\ UNCHANGED <<envVars, dirs, dest, storeVars, active_downloads, threadVars>>

(***************************************************************************)
(* DownloadMonitor.handle_delete_event                                     *)
(***************************************************************************)
\* "if not media_id": None and 0 both count as no media identifier
MediaIdMissing(m) == m = NoMediaId \/ m = 0

\* variant: a lookup that forgets to compare the media identifier
found_torrents_any_media(m) == {d \in DownloadIds : torrents[d] # NoRecord}

\* found_torrents: the hashes whose record carries the media identifier
found_torrents(m) == {d \in DownloadIds : torrents[d] # NoRecord /\ torrents[d].media_id = m}

\* the orders in which the loop may meet the hashes of a set
Orders(S) == {q \in [1..Cardinality(S) -> S] : \A i, j \in 1..Cardinality(S) : q[i] = q[j] => i = j}

\* QBittorrentClient.delete_torrent(hash, with_files=True) returns True
delete_torrent(st, h, up) == Answers(up) /\ st.qbt[h] # "absent"

\* variant: a turn that does not look at the results of the deletions
DeleteOne_ignoring_failures(st, h, up, rmFailed) ==
    LET gone == ApiEnabled /\ delete_torrent(st, h, up)
        qbt1 == IF gone THEN [st.qbt EXCEPT ![h] = "absent"] ELSE st.qbt
        disk1 == IF gone THEN st.disk \ {ContentPath(h)} ELSE st.disk
        path == st.torrents[h].torrent_path
        exists == path \in disk1
        removed == exists /\ h \notin rmFailed
        disk2 == IF ~removed THEN disk1 ELSE IF path = Root THEN {} ELSE disk1 \ {path}
        t2 == delete_torrent_info(st.torrents, h)
    IN  [qbt |-> qbt1, disk |-> disk2, torrents |-> t2,
         file |-> save_to_disk(t2),
         success |-> st.success]

\* one turn of the loop over found_torrents, from the state st the turns
\* before left; rmFailed are the hashes whose local removal fails
DeleteOne(st, h, up, rmFailed) ==
    LET gone == ApiEnabled /\ delete_torrent(st, h, up)
        qbt1 == IF gone THEN [st.qbt EXCEPT ![h] = "absent"] ELSE st.qbt
        disk1 == IF gone THEN st.disk \ {ContentPath(h)} ELSE st.disk
        path == st.torrents[h].torrent_path
        exists == path \in disk1
        removed == exists /\ h \notin rmFailed
        disk2 == IF ~removed THEN disk1 ELSE IF path = Root THEN {} ELSE disk1 \ {path}
        t2 == delete_torrent_info(st.torrents, h)
    IN  [qbt |-> qbt1, disk |-> disk2, torrents |-> t2,
         file |-> save_to_disk(t2),
         success |-> st.success /\ (ApiEnabled => gone) /\ (exists => removed)]

RECURSIVE DeleteLoop(_, _, _, _)
DeleteLoop(st, order, up, rmFailed) ==
    IF order = << >> THEN st
    ELSE DeleteLoop(DeleteOne(st, Head(order), up, rmFailed), Tail(order), up, rmFailed)

\* no media identifier, or no record carries it
DeleteRefused(m) ==
    /\ MediaIdMissing(m) \/ found_torrents(m) = {}
    /\ ret' = [op |-> "delete", result |-> FALSE]
    /\ UNCHANGED <<envVars, dirs, dest, storeVars, active_downloads, info, threadVars>>

\* variant: a deletion that also deactivates and unregisters the DownloadInfo
\* objects of the downloads whose records it removes
DeleteFound_ending_sessions(m, order, up, rmFailed) ==
    LET st0 == [qbt |-> qbt, disk |-> disk, torrents |-> torrents, file |-> storage_file,
                success |-> TRUE]
        st == DeleteLoop(st0, order, up, rmFailed)
    IN  /\ ~MediaIdMissing(m)
        /\ found_torrents(m) # {}
        /\ qbt' = st.qbt
        /\ disk' = st.disk
        /\ torrents' = st.torrents
        /\ storage_file' = st.file
        /\ tmp_file' = NoFile
        /\ UNCHANGED worker
        /\ info' = [k \in DOMAIN info |->
                      IF info[k].download_id \in found_torrents(m)
                      THEN [info[k] EXCEPT !.active = FALSE] ELSE info[k]]
        /\ active_downloads' = [d \in DOMAIN active_downloads |->
                      IF d \in found_torrents(m) THEN NoSession ELSE active_downloads[d]]
        /\ ret' = [op |-> "delete", result |-> st.success]
        /\ UNCHANGED <<probeVars, now, apiMode, dirs, dest, threadVars>>

DeleteFound(m, order, up, rmFailed) ==
    LET st0 == [qbt |-> qbt, disk |-> disk, torrents |-> torrents, file |-> storage_file,
                success |-> TRUE]
        st == DeleteLoop(st0, order, up, rmFailed)
    IN  /\ ~MediaIdMissing(m)
        /\ found_torrents(m) # {}
        /\ qbt' = st.qbt
        /\ disk' = st.disk
        /\ torrents' = st.torrents
        /\ storage_file' = st.file
        /\ tmp_file' = NoFile
        /\ UNCHANGED worker
        /\ ret' = [op |-> "delete", result |-> st.success]
        /\ UNCHANGED <<probeVars, now, apiMode, dirs, dest, active_downloads, info, threadVars>>

handle_delete_event(m) ==
    \/ DeleteRefused(m)
    \/ \E order \in Orders(found_torrents(m)) : \E up \in Ups :
       \E rmFailed \in SUBSET found_torrents(m) :
          DeleteFound(m, order, up, rmFailed)

(***************************************************************************)
(* DownloadMonitor.monitor_download, run by thread k for the download of   *)
(* the DownloadInfo object k that was registered when the thread started.  *)
(***************************************************************************)
\* DownloadInfo.update_check_time
update_check_time(di) == [di EXCEPT !.last_check = now]

\* the download_id argument of thread k
ThreadArg(k) == info[k].download_id

\* "if download_id not in active_downloads: return", else bind download_info
MonitorStart(k) ==
    /\ pc[k] = "start"
    /\ IF active_downloads[ThreadArg(k)] = NoSession
       THEN /\ pc' = [pc EXCEPT ![k] = "done"]
            /\ UNCHANGED download_info
       ELSE /\ pc' = [pc EXCEPT ![k] = "loop"]
            /\ download_info' = [download_info EXCEPT ![k] = active_downloads[ThreadArg(k)]]
    /\ ret' = NoRet
    /\ UNCHANGED <<envVars, dirs, dest, storeVars, active_downloads, info, check_count>>

\* variant: a loop that admits one iteration more than the maximum
LoopCondition_off_by_one(k) ==
    info[download_info[k]].active /\ check_count[k] <= MAX_MONITOR_CHECKS

\* variant: a loop that never looks at the active flag
LoopCondition_count_only(k) == check_count[k] < MAX_MONITOR_CHECKS

\* the condition of the while loop
LoopCondition(k) ==
    info[download_info[k]].active /\ check_count[k] < MAX_MONITOR_CHECKS

\* variant: a loop whose end deactivates the DownloadInfo
MonitorLoop_deactivating(k) ==
    /\ pc[k] = "loop"
    /\ IF LoopCondition(k)
       THEN /\ check_count' = [check_count EXCEPT ![k] = @ + 1]
            /\ pc' = [pc EXCEPT ![k] = "body"]
            /\ UNCHANGED info
       ELSE /\ pc' = [pc EXCEPT ![k] = "exit"]
            /\ info' = [info EXCEPT ![download_info[k]].active = FALSE]
            /\ UNCHANGED check_count
    /\ ret' = NoRet
    /\ UNCHANGED <<envVars, dirs, dest, storeVars, active_downloads, download_info>>

\* the test of the while loop, and "check_count += 1" when it passes
MonitorLoop(k) ==
    /\ pc[k] = "loop"
    /\ IF LoopCondition(k)
       THEN /\ check_count' = [check_count EXCEPT ![k] = @ + 1]
            /\ pc' = [pc EXCEPT ![k] = "body"]
       ELSE /\ pc' = [pc EXCEPT ![k] = "exit"]
            /\ UNCHANGED check_count
    /\ ret' = NoRet
    /\ UNCHANGED <<envVars, dirs, dest, storeVars, active_downloads, info, download_info>>

\* variant: an iteration in which a link fails ends the thread where it
\* stands, as an exception that nothing catches would
MonitorBody_failure_ends(k, up, fsError, failed) ==
    LET s == download_info[k]
        d == ThreadArg(k)
        folder == find_torrent_folder(d, up, fsError)
        completed == ApiEnabled /\ is_torrent_completed(d, up)
        di1 == IF folder # NoPath
               THEN process_download_folder(folder, info[s], up, failed)
               ELSE info[s]
    IN  /\ pc[k] = "body"
        /\ dest' = IF folder # NoPath THEN DestAfterPass(folder, info[s], up, failed) ELSE dest
        /\ IF failed # {}
           THEN /\ info' = [info EXCEPT ![s] = di1]
                /\ pc' = [pc EXCEPT ![k] = "done"]
           ELSE IF completed
           THEN /\ info' = [info EXCEPT ![s] = [di1 EXCEPT !.active = FALSE]]
                /\ pc' = [pc EXCEPT ![k] = "exit"]
           ELSE /\ info' = [info EXCEPT ![s] = IF folder # NoPath
                                                THEN update_check_time(di1) ELSE di1]
                /\ pc' = [pc EXCEPT ![k] = "loop"]
        /\ ret' = NoRet
        /\ UNCHANGED <<envVars, dirs, storeVars, active_downloads, download_info, check_count>>

\* variant: the completed download is processed and deactivated without
\* the "break"
MonitorBody_no_break(k, up, fsError, failed) ==
    LET s == download_info[k]
        d == ThreadArg(k)
        folder == find_torrent_folder(d, up, fsError)
        completed == ApiEnabled /\ is_torrent_completed(d, up)
        di1 == IF folder # NoPath
               THEN process_download_folder(folder, info[s], up, failed)
               ELSE info[s]
    IN  /\ pc[k] = "body"
        /\ dest' = IF folder # NoPath THEN DestAfterPass(folder, info[s], up, failed) ELSE dest
        /\ info' = [info EXCEPT ![s] = IF completed THEN [di1 EXCEPT !.active = FALSE]
                                        ELSE IF folder # NoPath THEN update_check_time(di1)
                                        ELSE di1]
        /\ pc' = [pc EXCEPT ![k] = "loop"]
        /\ ret' = NoRet
        /\ UNCHANGED <<envVars, dirs, storeVars, active_downloads, download_info, check_count>>

\* variant: an iteration that stamps last_check whether or not the folder was found
MonitorBody_stamps_unresolved(k, up, fsError, failed) ==
    LET s == download_info[k]
        d == ThreadArg(k)
        folder == find_torrent_folder(d, up, fsError)
        completed == ApiEnabled /\ is_torrent_completed(d, up)
        di1 == IF folder # NoPath
               THEN process_download_folder(folder, info[s], up, failed)
               ELSE info[s]
    IN  /\ pc[k] = "body"
        /\ dest' = IF folder # NoPath THEN DestAfterPass(folder, info[s], up, failed) ELSE dest
        /\ IF completed
           THEN /\ info' = [info EXCEPT ![s] = [di1 EXCEPT !.active = FALSE]]
                /\ pc' = [pc EXCEPT ![k] = "exit"]
           ELSE /\ info' = [info EXCEPT ![s] = update_check_time(di1)]
                /\ pc' = [pc EXCEPT ![k] = "loop"]
        /\ ret' = NoRet
        /\ UNCHANGED <<envVars, dirs, storeVars, active_downloads, download_info, check_count>>

\* one iteration of the loop body
MonitorBody(k, up, fsError, failed) ==
    LET s == download_info[k]
        d == ThreadArg(k)
        folder == find_torrent_folder(d, up, fsError)
        completed == ApiEnabled /\ is_torrent_completed(d, up)
        di1 == IF folder # NoPath
               THEN process_download_folder(folder, info[s], up, failed)
               ELSE info[s]
    IN  /\ pc[k] = "body"
        /\ dest' = IF folder # NoPath THEN DestAfterPass(folder, info[s], up, failed) ELSE dest
        /\ IF completed
           THEN /\ info' = [info EXCEPT ![s] = [di1 EXCEPT !.active = FALSE]]
                /\ pc' = [pc EXCEPT ![k] = "exit"]
           ELSE /\ info' = [info EXCEPT ![s] = IF folder # NoPath
                                                THEN update_check_time(di1) ELSE di1]
                /\ pc' = [pc EXCEPT ![k] = "loop"]
        /\ ret' = NoRet
        /\ UNCHANGED <<envVars, dirs, storeVars, active_downloads, download_info, check_count>>

\* variant: a thread that ends without removing its entry
MonitorExit_keeps_entry(k) ==
    /\ pc[k] = "exit"
    /\ pc' = [pc EXCEPT ![k] = "done"]
    /\ download_info' = [download_info EXCEPT ![k] = NoSession]
    /\ check_count' = [check_count EXCEPT ![k] = 0]
    /\ ret' = NoRet
    /\ UNCHANGED <<envVars, dirs, dest, storeVars, active_downloads, info>>

\* "if download_id in active_downloads: active_downloads.pop(download_id)"
MonitorExit(k) ==
    /\ pc[k] = "exit"
    /\ active_downloads' = [active_downloads EXCEPT ![ThreadArg(k)] = NoSession]
    /\ pc' = [pc EXCEPT ![k] = "done"]
    /\ download_info' = [download_info EXCEPT ![k] = NoSession]
    /\ check_count' = [check_count EXCEPT ![k] = 0]
    /\ ret' = NoRet
    /\ UNCHANGED <<envVars, dirs, dest, storeVars, info>>

monitor_download(k) ==
    \/ MonitorStart(k)
    \/ MonitorLoop(k)
    \/ /\ pc[k] = "body"
       /\ \E up \in Ups : \E fsError \in FsErrors(ThreadArg(k), up) :
          \E failed \in SUBSET PassFiles(find_torrent_folder(ThreadArg(k), up, fsError),
                                         ThreadArg(k), up) :
             MonitorBody(k, up, fsError, failed)
    \/ MonitorExit(k)

(***************************************************************************)
(* DownloadMonitor.get_active_downloads_status                             *)
(***************************************************************************)
\* it reads active_downloads, the DownloadInfo objects and the client
get_active_downloads_status ==
    /\ ret' = [op |-> "status", result |-> TRUE]
    /\ UNCHANGED <<envVars, storeVars, monitorVars>>

(***************************************************************************)
(* The system.  A handler runs as a whole and then returns: Return is the  *)
(* step in which its caller receives ret.  G is the set of downloads whose *)
(* events arrive and which the torrent client works on during the run.     *)
(***************************************************************************)
Return ==
    /\ ret # NoRet
    /\ ret' = NoRet
    /\ UNCHANGED <<envVars, dirs, dest, storeVars, active_downloads, info, threadVars>>

Environment(G) ==
    /\ ret = NoRet
    /\ \E d \in G : QbtAdd(d) \/ QbtMetadata(d) \/ QbtWrite(d) \/ QbtComplete(d)

Handlers(G) ==
    /\ ret = NoRet
    /\ \/ \E ev \in EventsOf(G) : handle_grab_event(ev)
       \/ \E d \in {NoDownloadId} \cup DownloadIds : handle_download_event(d)
       \/ \E m \in {NoMediaId} \cup MediaIds : handle_delete_event(m)

\* the threads run whether or not a handler's result is still being returned
Threads == \E k \in SessionIds : monitor_download(k)

NextOver(G) == Environment(G) \/ Handlers(G) \/ Threads \/ Return

\* the downloads in flight in the specification of the monitor's life cycle
InFlight == 1..MaxInFlight

Next == NextOver(InFlight)

Spec == Init /\ [][Next]_vars

\* a restart over the records of earlier downloads, followed by the events
\* of the downloads in flight, grabbed once for any media identifier
GrabbedOnce(G) ==
    /\ ret = NoRet
    /\ \A s \in SessionIds : pc[s] = "unborn"
    /\ \E ev \in Events : ev.download_id \in G /\ handle_grab_event(ev)

Deliveries ==
    /\ ret = NoRet
    /\ \/ \E d \in {NoDownloadId} \cup DownloadIds : handle_download_event(d)
       \/ \E m \in {NoMediaId} \cup MediaIds : handle_delete_event(m)
       \/ get_active_downloads_status

NextStore ==
    Environment(InFlight) \/ GrabbedOnce(InFlight) \/ Deliveries \/ Threads \/ Return

StoreSpec == InitRestart(InFlight) /\ [][NextStore]_vars

\* the same for the downloads whose content does not carry their identifier
\* in its name: without the client they are looked for by a walk of the
\* whole download directory, next to what earlier downloads left there
Walked == DownloadIds \ ContentNamedById

NextWalk ==
    Environment(Walked) \/ GrabbedOnce(Walked) \/ Deliveries \/ Threads \/ Return

WalkSpec == InitRestart(Walked) /\ [][NextWalk]_vars

\* the clock advances between two readings
Tick ==
    /\ now < MaxTicks
    /\ now' = now + 1
    /\ UNCHANGED <<probeVars, apiMode, qbt, disk, storeVars, monitorVars, ret>>

\* the life of the monitoring threads: everything but the deletions, which
\* touch neither active_downloads nor a DownloadInfo nor a thread
Arrivals(G) ==
    /\ ret = NoRet
    /\ \/ \E ev \in EventsOf(G) : handle_grab_event(ev)
       \/ \E d \in {NoDownloadId} \cup DownloadIds : handle_download_event(d)

NextLife == Environment(InFlight) \/ Arrivals(InFlight) \/ Threads \/ Return

\* every started thread keeps being scheduled: it only sleeps for bounded
\* times (time.sleep at monitor.py 228 and 242) and takes no lock
Fairness == \A k \in SessionIds : WF_vars(monitor_download(k))

FairSpec == Init /\ [][NextLife]_vars /\ Fairness

(***************************************************************************)
(* TorrentStorage step by step.  The request threads of the server call    *)
(* save_torrent_info, delete_torrent_info and get_all_torrents without any *)
(* lock; _save_to_disk is followed through its file operations, all on the *)
(* same temporary file.  An exception inside _save_to_disk is caught there  *)
(* and ends the save.                                                      *)
(***************************************************************************)
\* the records the request threads put for download d
OpRecords(d) ==
    [media_id : {MediaOf(d)}, media_path : {MediaFolder}, torrent_path : {Root, ContentPath(d)}]

\* the mappings built from such records
OpMappings ==
    {t \in [DownloadIds -> Records \cup {NoRecord}] :
        \A d \in DownloadIds : t[d] # NoRecord => t[d] \in OpRecords(d)}

\* the keys of _torrents
Keys(t) == {d \in DownloadIds : t[d] # NoRecord}

\* TorrentStorage.get_torrent_info
get_torrent_info(d) == torrents[d]

\* the thread is between two calls of TorrentStorage
Quiet(w) == worker[w].pc \in {"idle", "done", "failed", "scanned", "error"}

StoreFrame == UNCHANGED <<envVars, monitorVars, ret>>

\* save_torrent_info: the assignment to _torrents[download_id]
StorePut(w, d, r) ==
    /\ Quiet(w)
    /\ torrents' = save_torrent_info(d, r.media_id, r.media_path, r.torrent_path)
    /\ worker' = [worker EXCEPT ![w] = [Idle EXCEPT !.pc = "dump"]]
    /\ UNCHANGED <<storage_file, tmp_file>>
    /\ StoreFrame

\* delete_torrent_info for a download that has a record: "del"
StoreDelete(w, d) ==
    /\ Quiet(w)
    /\ torrents[d] # NoRecord
    /\ torrents' = delete_torrent_info(torrents, d)
    /\ worker' = [worker EXCEPT ![w] = [Idle EXCEPT !.pc = "dump"]]
    /\ UNCHANGED <<storage_file, tmp_file>>
    /\ StoreFrame

\* _save_to_disk: pickle.dump of _torrents into the temporary file
SaveDump(w) ==
    /\ worker[w].pc = "dump"
    /\ tmp_file' = save_to_disk(torrents)
    /\ worker' = [worker EXCEPT ![w].pc = "check"]
    /\ UNCHANGED <<torrents, storage_file>>
    /\ StoreFrame

\* _save_to_disk: "if os.path.exists(cls._storage_file)"
SaveCheck(w) ==
    /\ worker[w].pc = "check"
    /\ worker' = [worker EXCEPT ![w].pc =
                    IF storage_file.kind # "absent" THEN "remove" ELSE "rename"]
    /\ UNCHANGED <<torrents, storage_file, tmp_file>>
    /\ StoreFrame

\* _save_to_disk: "os.remove(cls._storage_file)"
SaveRemove(w) ==
    /\ worker[w].pc = "remove"
    /\ IF storage_file.kind = "absent"
       THEN /\ worker' = [worker EXCEPT ![w].pc = "failed"]
            /\ UNCHANGED storage_file
       ELSE /\ worker' = [worker EXCEPT ![w].pc = "rename"]
            /\ storage_file' = NoFile
    /\ UNCHANGED <<torrents, tmp_file>>
    /\ StoreFrame

\* _save_to_disk: "os.rename(temp_file, cls._storage_file)"
SaveRename(w) ==
    /\ worker[w].pc = "rename"
    /\ IF tmp_file.kind = "absent"
       THEN /\ worker' = [worker EXCEPT ![w].pc = "failed"]
            /\ UNCHANGED <<storage_file, tmp_file>>
       ELSE /\ worker' = [worker EXCEPT ![w].pc = "done"]
            /\ storage_file' = tmp_file
            /\ tmp_file' = NoFile
    /\ UNCHANGED torrents
    /\ StoreFrame

\* handle_delete_event: the loop over get_all_torrents().items() starts
ScanBegin(w) ==
    /\ Quiet(w)
    /\ worker' = [worker EXCEPT ![w] =
                    [pc |-> "scan", size |-> Cardinality(Keys(torrents)),
                     left |-> Keys(torrents)]]
    /\ UNCHANGED <<torrents, storage_file, tmp_file>>
    /\ StoreFrame

\* the loop asks for its next item: a dictionary whose size has changed
\* since the loop started raises RuntimeError, which ends the handler (only
\* the webhook route catches it, to answer with an error)
ScanNext(w) ==
    /\ worker[w].pc = "scan"
    /\ IF Cardinality(Keys(torrents)) # worker[w].size
       THEN worker' = [worker EXCEPT ![w].pc = "error"]
       ELSE IF worker[w].left \cap Keys(torrents) = {}
       THEN worker' = [worker EXCEPT ![w].pc = "scanned"]
       ELSE \E d \in worker[w].left \cap Keys(torrents) :
                worker' = [worker EXCEPT ![w].left = @ \ {d}]
    /\ UNCHANGED <<torrents, storage_file, tmp_file>>
    /\ StoreFrame

\* the process is killed and started again: TorrentStorage.initialize
Restart ==
    /\ torrents' = Load(storage_file)
    /\ worker' = [w \in Workers |-> Idle]
    /\ UNCHANGED <<storage_file, tmp_file>>
    /\ StoreFrame

\* the use of TorrentStorage by the request threads in W
TorrentStorageSteps(W) ==
    \E w \in W :
        \/ \E d \in DownloadIds : \E r \in OpRecords(d) : StorePut(w, d, r)
        \/ \E d \in DownloadIds : StoreDelete(w, d)
        \/ SaveDump(w)
        \/ SaveCheck(w)
        \/ SaveRemove(w)
        \/ SaveRename(w)
        \/ ScanBegin(w)
        \/ ScanNext(w)

\* TorrentStorage.initialize at the start of the process: no storage file,
\* a snapshot an earlier run left, or a damaged one
InitStorage ==
    /\ InitMonitor
    /\ apiMode = "off"
    /\ qbt = [d \in DownloadIds |-> "absent"]
    /\ disk = {Root}
    /\ storage_file \in {NoFile} \cup {save_to_disk(t) : t \in OpMappings}
                                \cup {Truncated(t) : t \in OpMappings}
    /\ torrents = Load(storage_file)

\* one request at a time
NextSequential == TorrentStorageSteps({1}) \/ Restart

SequentialStoreSpec == InitStorage /\ [][NextSequential]_vars

\* requests served by concurrent threads
NextConcurrent == TorrentStorageSteps(Workers) \/ Restart

ConcurrentStoreSpec == InitStorage /\ [][NextConcurrent]_vars

\* variant: a failed save that puts _torrents back to what the storage file holds
SaveRaises_undoing(w) ==
    /\ worker[w].pc \in {"dump", "remove", "rename"}
    /\ worker' = [worker EXCEPT ![w].pc = "failed"]
    /\ torrents' = Load(storage_file)
    /\ UNCHANGED <<storage_file, tmp_file>>
    /\ StoreFrame

\* _save_to_disk: a file operation raises (no space, no permission) and the
\* except branch ends the save.  os.makedirs, open or pickle.dump may leave
\* the temporary file as it was or cut off; os.remove and os.rename leave
\* the files as they were
SaveRaises(w) ==
    /\ worker[w].pc \in {"dump", "remove", "rename"}
    /\ worker' = [worker EXCEPT ![w].pc = "failed"]
    /\ IF worker[w].pc = "dump"
       THEN tmp_file' \in {tmp_file, Truncated(torrents)}
       ELSE UNCHANGED tmp_file
    /\ UNCHANGED <<torrents, storage_file>>
    /\ StoreFrame

\* one request at a time in a process that stays up, on a disk whose
\* operations may fail
NextFailing == TorrentStorageSteps({1}) \/ SaveRaises(1)

FailingStoreSpec == InitStorage /\ [][NextFailing]_vars

(***************************************************************************)
(* The status queries step by step.  A request thread of the server runs   *)
(* get_active_downloads_status or check_torrent while handle_grab_event    *)
(* inserts into active_downloads and the monitor threads pop from it; none *)
(* of them takes a lock.                                                   *)
(***************************************************************************)
\* the keys of active_downloads
RegistryKeys == {d \in DownloadIds : active_downloads[d] # NoSession}

\* the request thread is not inside a status query
NoQuery(w) == worker[w].pc \in {"idle", "reported", "raised"}

QueryFrame == UNCHANGED <<envVars, torrents, storage_file, tmp_file, monitorVars, ret>>

\* get_active_downloads_status: the loop over active_downloads.items() starts
StatusBegin(w) ==
    /\ NoQuery(w)
    /\ worker' = [worker EXCEPT ![w] =
                    [pc |-> "status", size |-> Cardinality(RegistryKeys),
                     left |-> RegistryKeys]]
    /\ QueryFrame

\* the loop asks for its next item, after the call to the client and the
\* reads of the DownloadInfo of the item before; a dictionary whose size has
\* changed since the loop started raises RuntimeError
StatusNext(w) ==
    /\ worker[w].pc = "status"
    /\ IF Cardinality(RegistryKeys) # worker[w].size
       THEN worker' = [worker EXCEPT ![w].pc = "raised"]
       ELSE IF worker[w].left \cap RegistryKeys = {}
       THEN worker' = [worker EXCEPT ![w].pc = "reported"]
       ELSE \E d \in worker[w].left \cap RegistryKeys :
                worker' = [worker EXCEPT ![w].left = @ \ {d}]
    /\ QueryFrame

\* check_torrent: "if torrent_hash in active_downloads"
CheckMember(w, d) ==
    /\ NoQuery(w)
    /\ worker' = [worker EXCEPT ![w] =
                    IF d \in RegistryKeys
                    THEN [pc |-> "lookup", size |-> 0, left |-> {d}]
                    ELSE [Idle EXCEPT !.pc = "reported"]]
    /\ QueryFrame

\* check_torrent: "info = active_downloads[torrent_hash]", KeyError when the
\* entry has been popped since the test
CheckLookup(w) ==
    /\ worker[w].pc = "lookup"
    /\ worker' = [worker EXCEPT ![w] =
                    [Idle EXCEPT !.pc = IF worker[w].left \subseteq RegistryKeys
                                        THEN "reported" ELSE "raised"]]
    /\ QueryFrame

\* the status queries of the request threads in W
Queries(W) ==
    \E w \in W :
        \/ StatusBegin(w)
        \/ StatusNext(w)
        \/ \E d \in DownloadIds : CheckMember(w, d)
        \/ CheckLookup(w)

\* the life of the monitoring threads on a clock that advances
NextTimed == NextLife \/ Tick

TimedSpec == Init /\ [][NextTimed]_vars

NextQuery == NextLife \/ Queries({1})

QuerySpec == Init /\ [][NextQuery]_vars

(***************************************************************************)
(* DownloadLocator.find_torrent_folder followed over a download directory  *)
(* of up to MaxEntries entries, for every state of the torrent client.     *)
(***************************************************************************)
Attributes == [match : Matches, kind : Kinds, depth : Depths]

ListingOf(f) ==
    {[path |-> MaxDownloads + i, match |-> f[i].match,
      kind |-> f[i].kind, depth |-> f[i].depth] : i \in DOMAIN f}

\* a directory holds one entry of a given name at most
Listings ==
    {L \in {ListingOf(f) : f \in UNION {[1..n -> Attributes] : n \in 0..MaxEntries}} :
        \A m \in {"exact", "lower"} :
            Cardinality({e \in L : e.depth = "top" /\ e.match = m}) <= 1}

InitLocator ==
    /\ listing \in Listings
    /\ located = NoLookup
    /\ linking = NoLinking
    /\ now = 0
    /\ apiMode \in {"off", "down", "on"}
    /\ qbt \in [DownloadIds -> QbtStates]
    /\ disk = {Root}
    /\ dirs = {}
    /\ dest = {}
    /\ torrents = NoTorrents
    /\ storage_file = NoFile
    /\ tmp_file = NoFile
    /\ worker = [w \in Workers |-> Idle]
    /\ active_downloads = [d \in DownloadIds |-> NoSession]
    /\ info = [s \in SessionIds |-> NoInfo]
    /\ pc = [s \in SessionIds |-> "unborn"]
    /\ download_info = [s \in SessionIds |-> NoSession]
    /\ check_count = [s \in SessionIds |-> 0]
    /\ ret = NoRet

\* one call of find_torrent_folder(d)
Locate(d) ==
    /\ located = NoLookup
    /\ \E up \in BOOLEAN : \E fsError \in BOOLEAN :
         \E p \in Locations(listing, d, up, fsError) :
            located' = [d |-> d, up |-> up, fsError |-> fsError, path |-> p]
    /\ UNCHANGED <<listing, linking, now, apiMode, qbt, disk, storeVars, monitorVars, ret>>

NextLocator == \E d \in DownloadIds : Locate(d)

LocatorSpec == InitLocator /\ [][NextLocator]_vars

(***************************************************************************)
(* DownloadMonitor._create_hardlink_with_structure followed step by step,  *)
(* as process_download_folder calls it for one file that is on disk.       *)
(***************************************************************************)
\* "dest_file = os.path.join(dest_base_dir, relative_path)": os.path.join
\* drops dest_base_dir when relative_path is absolute, and an absolute name
\* of the client is also the path of the source file
dest_file(c) == IF c.name = "absolute" THEN "source_file" ELSE "media_folder/relative_path"

\* the calls a pass can make: the source file is on disk, so that a
\* destination that is the source file exists, and so does its directory
PassCalls ==
    {c \in LinkCalls : c.name = "absolute" => (c.exists /\ c.makedirs = "ok")}

\* the body of _create_hardlink_with_structure: what it attempts, in order,
\* and what it returns
HardlinkSteps(c) ==
    IF c.makedirs = "raises" THEN [attempts |-> <<>>, ok |-> FALSE]
    ELSE IF c.exists THEN [attempts |-> <<>>, ok |-> TRUE]
    ELSE IF c.link = "ok" THEN [attempts |-> <<"link">>, ok |-> TRUE]
    ELSE IF c.ln = "raises" THEN [attempts |-> <<"link", "ln">>, ok |-> FALSE]
    ELSE IF c.ln = "ok" THEN [attempts |-> <<"link", "ln">>, ok |-> TRUE]
    ELSE [attempts |-> <<"link", "ln", "cp">>, ok |-> c.cp = "ok"]

InitLinking ==
    /\ linking \in {[NoLinking EXCEPT !.call = c] : c \in PassCalls}
    /\ listing = {}
    /\ located = NoLookup
    /\ now = 0
    /\ apiMode = "on"
    /\ qbt = [d \in DownloadIds |-> "absent"]
    /\ disk = {Root}
    /\ dirs = {}
    /\ dest = {}
    /\ torrents = NoTorrents
    /\ storage_file = NoFile
    /\ tmp_file = NoFile
    /\ worker = [w \in Workers |-> Idle]
    /\ active_downloads = [d \in DownloadIds |-> NoSession]
    /\ info = [s \in SessionIds |-> NoInfo]
    /\ pc = [s \in SessionIds |-> "unborn"]
    /\ download_info = [s \in SessionIds |-> NoSession]
    /\ check_count = [s \in SessionIds |-> 0]
    /\ ret = NoRet

\* one call of _create_hardlink_with_structure
Link ==
    /\ ~linking.done
    /\ linking' = [call |-> linking.call, done |-> TRUE,
                   attempts |-> HardlinkSteps(linking.call).attempts,
                   ok |-> HardlinkSteps(linking.call).ok,
                   dest_file |-> dest_file(linking.call)]
    /\ UNCHANGED <<listing, located, now, apiMode, qbt, disk, storeVars, monitorVars, ret>>

NextLinking == Link

LinkingSpec == InitLinking /\ [][NextLinking]_vars

(***************************************************************************)
(* Properties of the registry and of the monitoring threads                *)
(***************************************************************************)
\* the DownloadInfo s is a value of active_downloads
Registered(s) == \E d \in DownloadIds : active_downloads[d] = s

\* thread k is inside its while loop
Polling(k) == pc[k] \in {"loop", "body"}

\* the DownloadInfo objects of download d that are registered or being polled
LiveSessions(d) ==
    {s \in SessionIds : /\ info[s].download_id = d
                        /\ \/ active_downloads[d] = s
                           \/ \E k \in SessionIds : Polling(k) /\ download_info[k] = s}

\* the threads polling for download d
PollingTasks(d) == {k \in SessionIds : Polling(k) /\ ThreadArg(k) = d}

\* C1: a download identifier has at most one live DownloadInfo and at most
\* one thread inside the polling loop, whatever Grab events arrive.
C1_OneSessionOneTask ==
    \A d \in DownloadIds :
        Cardinality(LiveSessions(d)) <= 1 /\ Cardinality(PollingTasks(d)) <= 1

\* C2: every DownloadInfo that handle_grab_event registers is eventually no
\* longer registered: its thread leaves the loop, and the step by which a
\* thread ends leaves no entry under its download identifier.
C2_SessionEventuallyRemoved ==
    /\ \A s \in SessionIds : Registered(s) ~> ~Registered(s)
    /\ \A k \in SessionIds : Polling(k) ~> (pc[k] = "done")
    /\ [][\A k \in SessionIds :
            (pc[k] = "exit" /\ pc'[k] = "done")
                => active_downloads'[info[k].download_id] = NoSession]_vars

\* a DownloadInfo was registered, its thread has ended and the entry is gone
C2_Witness ==
    \E k \in SessionIds :
        /\ pc[k] = "done"
        /\ info[k].download_id # NoDownloadId
        /\ active_downloads[info[k].download_id] = NoSession

\* C3: no thread starts more iterations than Config.MAX_MONITOR_CHECKS.
C3_ChecksBounded == \A k \in SessionIds : check_count[k] <= MAX_MONITOR_CHECKS

\* a thread is in its last permitted iteration
C3_Witness ==
    \E k \in SessionIds : pc[k] = "body" /\ check_count[k] = MAX_MONITOR_CHECKS

\* thread k leaves the loop although its DownloadInfo is still active, that
\* is, because the maximum number of checks is reached
MaxChecksExit(k) ==
    /\ pc[k] = "loop"
    /\ pc'[k] = "exit"
    /\ info[download_info[k]].active

C5_InactiveStopsPolling ==
    /\ [][\A k \in SessionIds :
            (pc[k] = "loop" /\ ~info[download_info[k]].active)
                => pc'[k] # "body"]_vars
    /\ \A s \in SessionIds :
            (Registered(s) /\ ~info[s].active) ~> ~Registered(s)

\* handle_download_event has just deactivated a registered DownloadInfo
\* while its thread is in the middle of an iteration
C5_Witness ==
    /\ ret = [op |-> "download", result |-> TRUE]
    /\ \E k \in SessionIds :
        /\ pc[k] = "body"
        /\ Registered(download_info[k])
        /\ ~info[download_info[k]].active

\* C6: handle_download_event for an event without download identifier, or
\* with one that has no entry in active_downloads, returns False and changes
\* nothing.
C6_UnknownDownloadRefused ==
    [][\A d \in {NoDownloadId} \cup DownloadIds :
        ( /\ ret = NoRet
          /\ d = NoDownloadId \/ active_downloads[d] = NoSession
          /\ handle_download_event(d) )
            => /\ ret' = [op |-> "download", result |-> FALSE]
               /\ UNCHANGED <<envVars, fsVars, storeVars, active_downloads,
                              info, threadVars>>]_vars

\* a Download event was refused while another download is registered
C6_Witness ==
    /\ ret = [op |-> "download", result |-> FALSE]
    /\ \E s \in SessionIds : Registered(s) /\ info[s].active

(***************************************************************************)
(* Properties of the webhook handlers                                      *)
(***************************************************************************)
\* no stored record carries the media identifier m
NoRecordOf(m) ==
    \A d \in DownloadIds : torrents[d] = NoRecord \/ torrents[d].media_id # m

\* C7: handle_delete_event for an event without media identifier, or with one
\* that no stored record carries, returns False and leaves the store, the
\* filesystem and qBittorrent untouched.
C7_UnmatchedDeleteRefused ==
    [][\A m \in {NoMediaId} \cup MediaIds :
        ( /\ ret = NoRet
          /\ m = NoMediaId \/ NoRecordOf(m)
          /\ handle_delete_event(m) )
            => /\ ret' = [op |-> "delete", result |-> FALSE]
               /\ UNCHANGED <<envVars, fsVars, storeVars, active_downloads,
                              info, threadVars>>]_vars

\* a Delete event was refused while the store holds a record and its
\* content is on disk
C7_Witness ==
    /\ ret = [op |-> "delete", result |-> FALSE]
    /\ \E d \in DownloadIds :
        /\ torrents[d] # NoRecord
        /\ torrents[d].media_id = NoMediaId
        /\ torrents[d].torrent_path \in disk

\* the store after a Delete event for m: the records carrying m are gone and
\* every other record is as it was
WithoutMedia(m) ==
    [d \in DownloadIds |->
        IF torrents[d] # NoRecord /\ torrents[d].media_id = m
        THEN NoRecord ELSE torrents[d]]

\* C8 for the media identifiers other than 0: a Grab event whose content path is resolved stores a record under
\* its download identifier carrying its media identifier; only Grab and
\* Delete events change records, so the state of the DownloadInfo does not
\* matter; and a Delete event for a media identifier that some record
\* carries removes every record carrying it and changes no other record.
C8_DeleteFindsGrabbedRecord ==
    /\ [][(ret = NoRet /\ ret'.op = "grab") =>
            \A ev \in Events : \A up \in Ups : \A fsError \in BOOLEAN :
              \A failed \in SUBSET Paths :
                ( /\ should_monitor_download(ev)
                  /\ find_torrent_folder(ev.download_id, up, fsError) # NoPath
                  /\ GrabAccepted(ev, up, fsError, failed) )
                    => /\ torrents'[ev.download_id] # NoRecord
                       /\ torrents'[ev.download_id].media_id = ev.movie.id]_vars
    /\ [][torrents' # torrents => (ret = NoRet /\ ret'.op \in {"grab", "delete"})]_vars
    /\ [][\A m \in MediaIds :
            (ret = NoRet /\ ~NoRecordOf(m) /\ m # 0 /\ handle_delete_event(m))
                => /\ torrents' = WithoutMedia(m)
                   /\ storage_file' = save_to_disk(torrents')]_vars

\* C8 as stated, for every media identifier: when a Grab event has stored a
\* record for download d with media identifier m (the downloads in flight
\* have no other records), a Delete event for m removes every record
\* carrying m and changes no other record.
C8_DeleteRemovesEveryMatch ==
    [][\A m \in MediaIds : \A d \in InFlight :
        ( /\ ret = NoRet
          /\ torrents[d] # NoRecord
          /\ torrents[d].media_id = m
          /\ handle_delete_event(m) )
            => torrents' = WithoutMedia(m)]_vars

\* a Delete event has removed the record of a download whose DownloadInfo is
\* still registered and active, and the record of another media is in place
C8_Witness ==
    /\ ret.op = "delete"
    /\ \E d \in DownloadIds :
        /\ active_downloads[d] # NoSession
        /\ info[active_downloads[d]].active
        /\ torrents[d] = NoRecord
    /\ \E d \in DownloadIds : torrents[d] # NoRecord

\* a thread was launched on a DownloadInfo that the step registered
MonitoringStarted ==
    \E s \in SessionIds :
        /\ pc[s] = "unborn"
        /\ pc'[s] = "start"
        /\ active_downloads'[info'[s].download_id] = s

\* C9: handle_grab_event returns True exactly when monitoring was started,
\* that is, a DownloadInfo was registered and its thread launched.
C9_TrueIffMonitoringStarted ==
    [][(ret = NoRet /\ ret'.op = "grab") => (ret'.result <=> MonitoringStarted)]_vars

\* the event is not a Grab or lacks the download identifier, the download
\* client or the destination folder
Malformed(ev) ==
    \/ ev.event_type # "Grab"
    \/ ev.download_id = NoDownloadId
    \/ ev.download_client = NoClient
    \/ ev.movie.folder_path = NoFolder

\* C10: handle_grab_event for such an event returns False and has no effect
\* on the filesystem, the store, active_downloads or the threads.
C10_MalformedGrabRefused ==
    [][( /\ ret = NoRet
         /\ ret'.op = "grab"
         /\ \E ev \in Events : Malformed(ev) /\ handle_grab_event(ev) )
            => /\ ret' = [op |-> "grab", result |-> FALSE]
               /\ UNCHANGED <<envVars, fsVars, storeVars, active_downloads,
                              info, threadVars>>]_vars

\* a Grab event was refused in a state where an accepted one would have
\* created the destination folder and registered a DownloadInfo
C10_Witness ==
    /\ ret = [op |-> "grab", result |-> FALSE]
    /\ dirs = {}
    /\ \A s \in SessionIds : pc[s] = "unborn"

(***************************************************************************)
(* Properties of the sync pass                                             *)
(***************************************************************************)
\* C11: the processed_files of a DownloadInfo only grow: no sync pass, no
\* Download or Delete event and no status query removes a path from them.
C11_ProcessedFilesGrow ==
    [][\A s \in SessionIds :
        info[s].processed_files \subseteq info'[s].processed_files]_vars

\* a Delete event was carried out while a DownloadInfo has processed files
C11_Witness ==
    /\ ret = [op |-> "delete", result |-> TRUE]
    /\ \E s \in SessionIds : info[s].processed_files # {}

C13_MaterializeTwice ==
    \A f \in disk \ {Root} :
        LET s1 == create_hardlink_with_structure(dest, f, MediaFolder, {})
            s2 == create_hardlink_with_structure(s1.dest, f, MediaFolder, {})
            h1 == create_hardlink(dest, f, MediaFolder, {})
            h2 == create_hardlink(h1.dest, f, MediaFolder, {})
        IN  /\ s1.ok => (s2.ok /\ s2.dest = s1.dest /\ <<MediaFolder, f>> \in s2.dest)
            /\ h1.ok => (h2.ok /\ h2.dest = h1.dest /\ <<MediaFolder, f>> \in h2.dest)

(***************************************************************************)
(* Properties of the torrent store                                         *)
(***************************************************************************)
\* C14: whenever the process could be killed during _save_to_disk, the live
\* storage file is a complete snapshot, the previous one or the new one: no
\* step of a save leaves it missing or damaged.
C14_LiveFileAlwaysWhole ==
    [][storage_file.kind = "whole" => storage_file'.kind = "whole"]_vars

\* C15: once every concurrent writer has finished, the live storage file
\* exists and holds the in-memory mapping with every write in it.
C15_WritersSerialized ==
    ((\A w \in Workers : Quiet(w)) /\ (\E w \in Workers : worker[w].pc \in {"done", "failed"}))
        => storage_file = save_to_disk(torrents)

\* C16: a read of the store that runs while another thread puts or deletes
\* a record completes without error.
C16_ReadCompletes == \A w \in Workers : worker[w].pc # "error"

\* C17: with one request at a time, a put leaves get(d) equal to the record
\* put and a delete leaves it empty, neither touches another download, no
\* other step of the store changes the mapping, and once the snapshot is
\* written the file holds the mapping and initialize reloads exactly it.
C17_StoreRoundTrip ==
    /\ [](worker[1].pc = "done" =>
            /\ storage_file = [kind |-> "whole", data |-> torrents]
            /\ Load(storage_file) = torrents)
    /\ [][/\ \A d \in DownloadIds : \A r \in OpRecords(d) :
                (Quiet(1) /\ worker'[1].pc = "dump" /\ StorePut(1, d, r))
                    => /\ get_torrent_info(d)' = r
                       /\ \A e \in DownloadIds \ {d} : torrents'[e] = torrents[e]
          /\ \A d \in DownloadIds :
                (Quiet(1) /\ worker'[1].pc = "dump" /\ StoreDelete(1, d))
                    => /\ get_torrent_info(d)' = NoRecord
                       /\ \A e \in DownloadIds \ {d} : torrents'[e] = torrents[e]
          /\ (worker[1].pc = "done" /\ worker'[1].pc = "idle")
                    => torrents' = torrents
          /\ (worker'[1].pc \notin {"dump", "idle"}) => torrents' = torrents]_vars

C17_Witness ==
    /\ worker[1].pc = "done"
    /\ \E d \in DownloadIds : torrents[d] # NoRecord
    /\ \E d \in DownloadIds : torrents[d] = NoRecord

\* C18: after initialize has met a damaged storage file the store is empty;
\* a put then runs to its end without failing and the snapshot it writes
\* holds exactly the record put.
C18_CorruptFileStartsEmpty ==
    /\ []((storage_file.kind = "corrupt" /\ worker[1].pc = "idle") => torrents = NoTorrents)
    /\ [](worker[1].pc # "failed")
    /\ []((storage_file.kind = "corrupt" /\ worker[1].pc \in {"dump", "check", "remove"})
            => Cardinality(Keys(torrents)) = 1)
    /\ [][(worker[1].pc = "rename" /\ worker'[1].pc = "done")
            => /\ storage_file' = [kind |-> "whole", data |-> torrents']
               /\ Load(storage_file') = torrents']_vars

C18_Witness ==
    /\ storage_file.kind = "corrupt"
    /\ storage_file.data # NoTorrents
    /\ worker[1].pc = "remove"
    /\ tmp_file.kind = "whole"
    /\ Cardinality(Keys(tmp_file.data)) = 1

(***************************************************************************)
(* Properties of the media filter and of the end of the polling            *)
(***************************************************************************)
\* C19: in a sync pass that takes its files from the filesystem, a file
\* below the size threshold is neither linked into the media folder nor
\* added to processed_files.
C19_SmallFilesSkipped ==
    [][~ApiEnabled =>
        /\ \A s \in SessionIds : \A f \in info'[s].processed_files \ info[s].processed_files :
                ~BelowThreshold(f)
        /\ \A l \in dest' \ dest : ~BelowThreshold(l[2])]_vars

\* thread k takes the step of its first iteration in which the client
\* reports the download completed
CompletedAtFirstPoll(k) ==
    /\ pc[k] = "body"
    /\ check_count[k] = 1
    /\ pc'[k] # "body"
    /\ \E up \in Ups :
        /\ is_torrent_completed(ThreadArg(k), up)
        /\ \E fsError \in FsErrors(ThreadArg(k), up) :
           \E failed \in SUBSET PassFiles(find_torrent_folder(ThreadArg(k), up, fsError),
                                          ThreadArg(k), up) :
              MonitorBody(k, up, fsError, failed)

C21_FailuresKeepPolling ==
    /\ [][\A k \in SessionIds :
            (pc[k] = "body" /\ pc'[k] # "body")
                => \/ pc'[k] = "loop"
                   \/ /\ pc'[k] = "exit"
                      /\ apiMode = "on"
                      /\ qbt[ThreadArg(k)] = "completed"]_vars
    /\ [][\A k \in SessionIds :
            (pc[k] = "loop" /\ pc'[k] # "loop")
                => \/ pc'[k] = "body"
                   \/ /\ pc'[k] = "exit"
                      /\ \/ ~info[download_info[k]].active
                         \/ check_count[k] >= MAX_MONITOR_CHECKS]_vars
    /\ \A k \in SessionIds : (pc[k] = "body") ~> (pc[k] = "exit")

\* a thread is back at the test of the loop after an iteration in which the
\* link of the content that is on disk failed
C21_Witness ==
    \E k \in SessionIds :
        /\ pc[k] = "loop"
        /\ check_count[k] = 1
        /\ apiMode = "on"
        /\ qbt[ThreadArg(k)] = "downloading"
        /\ ContentPath(ThreadArg(k)) \in disk
        /\ info[download_info[k]].active
        /\ info[download_info[k]].processed_files = {}
        /\ dest = {}

\* C22: in a pass of the polling loop, whatever links fail, every other file
\* of the pass that is on disk and not yet processed gets its destination
\* file in that same pass.
C22_SiblingsStillAttempted ==
    [][\A k \in SessionIds :
        (pc[k] = "body" /\ pc'[k] # "body") =>
            \A up \in Ups : \A fsError \in FsErrors(ThreadArg(k), up) :
                LET d == ThreadArg(k)
                    s == download_info[k]
                    folder == find_torrent_folder(d, up, fsError)
                IN  \A failed \in SUBSET PassFiles(folder, d, up) :
                        (folder # NoPath /\ MonitorBody(k, up, fsError, failed)) =>
                            \A f \in (PassFiles(folder, d, up) \ info[s].processed_files) \ failed :
                                <<info[s].media_folder, f>> \in dest']_vars

\* after a pass over two files of the download directory the second is
\* linked and recorded while the first is not
C22_Witness ==
    \E k \in SessionIds :
        /\ pc[k] = "loop"
        /\ check_count[k] = 1
        /\ disk = {Root} \cup {ContentPath(d) : d \in DownloadIds}
        /\ info[download_info[k]].processed_files = {ContentPath(MaxDownloads)}
        /\ dest = {<<MediaFolder, ContentPath(MaxDownloads)>>}

(***************************************************************************)
(* Properties of handle_grab_event                                         *)
(***************************************************************************)
\* C23: every record of the store carries a path; a record appears only in
\* a handle_grab_event for its download in which find_torrent_folder
\* returned that path, and a handle_grab_event in which it returned none
\* writes nothing to the store.
C23_RecordOnlyWithPath ==
    /\ [](\A d \in DownloadIds : torrents[d] # NoRecord => torrents[d].torrent_path # NoPath)
    /\ [][\A d \in DownloadIds :
            (torrents[d] = NoRecord /\ torrents'[d] # NoRecord) =>
                /\ ret = NoRet
                /\ ret' = [op |-> "grab", result |-> TRUE]
                /\ \E up \in Ups : \E fsError \in FsErrors(d, up) :
                    /\ find_torrent_folder(d, up, fsError) # NoPath
                    /\ find_torrent_folder(d, up, fsError) = torrents'[d].torrent_path]_vars
    /\ [][(ret = NoRet /\ ret'.op = "grab" /\ ret'.result
            /\ \E ev \in EventsOf(InFlight) :
                /\ should_monitor_download(ev)
                /\ \E up \in Ups : \E fsError \in FsErrors(ev.download_id, up) :
                    /\ find_torrent_folder(ev.download_id, up, fsError) = NoPath
                    /\ GrabAccepted(ev, up, fsError, {}))
                => torrents' = torrents /\ storage_file' = storage_file]_vars

\* a Grab was accepted and its thread started while the store stayed empty
C23_Witness ==
    /\ ret = [op |-> "grab", result |-> TRUE]
    /\ torrents = NoTorrents
    /\ storage_file = NoFile
    /\ \E s \in SessionIds : pc[s] = "start" /\ active_downloads[info[s].download_id] = s

(***************************************************************************)
(* Properties of the status queries and of the writers of a DownloadInfo   *)
(***************************************************************************)
\* C24: a status query that runs while handle_grab_event registers a
\* DownloadInfo or a monitor thread pops one completes without raising, and
\* its steps change neither active_downloads, nor a DownloadInfo, nor the
\* store.
C24_QueriesComplete ==
    /\ [](\A w \in Workers : worker[w].pc # "raised")
    /\ [][(worker' # worker) =>
            UNCHANGED <<active_downloads, info, torrents, storage_file>>]_vars

C26_CompletedOnlyWhenReported ==
    \A d \in DownloadIds : \A up \in BOOLEAN :
        /\ is_torrent_completed(d, up) \in BOOLEAN
        /\ apiMode = "off" => ~is_torrent_completed(d, up)
        /\ apiMode = "down" => ~is_torrent_completed(d, up)
        /\ ~up => ~is_torrent_completed(d, up)
        /\ qbt[d] = "absent" => ~is_torrent_completed(d, up)
        /\ is_torrent_completed(d, up) => (apiMode = "on" /\ up /\ qbt[d] = "completed")

\* a thread has left its loop at the second iteration on the client's report
C26_Witness ==
    \E k \in SessionIds :
        /\ pc[k] = "exit"
        /\ check_count[k] = 2
        /\ apiMode = "on"
        /\ is_torrent_completed(ThreadArg(k), TRUE)
        /\ ~is_torrent_completed(ThreadArg(k), FALSE)
        /\ ~info[download_info[k]].active

C28_CompletedAtGrabNotMonitored ==
    [][(ret = NoRet /\ ret' = [op |-> "grab", result |-> TRUE]) =>
        \A ev \in EventsOf(InFlight) :
            should_monitor_download(ev) =>
                \A up \in Ups : \A fsError \in FsErrors(ev.download_id, up) :
                    LET d == ev.download_id
                        path == find_torrent_folder(d, up, fsError)
                    IN  (/\ path # NoPath
                         /\ ImmediatePass(d, up)
                         /\ TorrentCompleted(d, up)
                         /\ \E failed \in SUBSET PassFiles(path, d, up) :
                                GrabAccepted(ev, up, fsError, failed))
                        => /\ active_downloads' = active_downloads
                           /\ info' = info
                           /\ threadVars' = threadVars
                           /\ torrents'[d] # NoRecord
                           /\ torrents'[d].torrent_path = path
                           /\ storage_file' = save_to_disk(torrents')]_vars

\* a Grab for a torrent the client reports completed was accepted: its
\* content is linked, its record stored, and nothing is registered or started
C28_Witness ==
    /\ ret = [op |-> "grab", result |-> TRUE]
    /\ apiMode = "on"
    /\ \E d \in DownloadIds :
        /\ qbt[d] = "completed"
        /\ torrents[d] # NoRecord
        /\ <<MediaFolder, ContentPath(d)>> \in dest
    /\ \A d \in DownloadIds : active_downloads[d] = NoSession
    /\ \A s \in SessionIds : pc[s] = "unborn"

\* what C29 asks of a pass over the client's file list of download d, run
\* for the DownloadInfo di with the links of failed failing: a listed file
\* that is on disk and not yet processed is linked and recorded whatever its
\* size, and a listed file that is not on disk is neither linked nor added
\* to processed_files
ListedFilesLinked(d, di, di1, failed) ==
    \A f \in {ContentPath(d)} :
        /\ (f \in disk /\ f \notin di.processed_files /\ f \notin failed)
              => (<<di.media_folder, f>> \in dest' /\ f \in di1.processed_files)
        /\ f \notin disk
              => (di1.processed_files = di.processed_files /\ dest' = dest)

C31_ActiveOnlyFalls ==
    /\ [][\A s \in SessionIds :
            (info[s] # NoInfo /\ ~info[s].active) => ~info'[s].active]_vars
    /\ [][\A k \in SessionIds :
            (pc[k] = "loop" /\ pc'[k] = "body") => info[download_info[k]].active]_vars
    /\ [][\A k \in SessionIds :
            /\ pc[k] = "exit" => pc'[k] \in {"exit", "done"}
            /\ pc[k] = "done" => pc'[k] = "done"]_vars

\* handle_download_event has deactivated the DownloadInfo of a thread that
\* then left its loop, and a second Download event has found it again
C31_Witness ==
    /\ ret = [op |-> "download", result |-> TRUE]
    /\ \E k \in SessionIds :
        /\ pc[k] = "exit"
        /\ check_count[k] < MAX_MONITOR_CHECKS
        /\ qbt[ThreadArg(k)] # "completed"
        /\ Registered(download_info[k])
        /\ ~info[download_info[k]].active

(***************************************************************************)
(* Properties of _create_hardlink_with_structure                           *)
(***************************************************************************)
\* C32: _create_hardlink_with_structure tries os.link first, the ln command
\* only after os.link failed and the cp command only after the ln command
\* failed; it returns False only when all three were tried and failed or
\* when preparing the destination raised, and True in every other case.
C32_CopyIsLastResort ==
    linking.done =>
        LET c == linking.call
            tried(a) == \E i \in DOMAIN linking.attempts : linking.attempts[i] = a
            linkFailed == tried("link") /\ c.link # "ok"
            lnFailed == tried("ln") /\ c.ln # "ok"
            cpFailed == tried("cp") /\ c.cp # "ok"
        IN  /\ linking.attempts \in {<<>>, <<"link">>, <<"link", "ln">>, <<"link", "ln", "cp">>}
            /\ tried("ln") => linkFailed
            /\ tried("cp") => lnFailed
            /\ ~linking.ok <=> (c.makedirs = "raises" \/ (linkFailed /\ lnFailed /\ cpFailed))

(***************************************************************************)
(* Properties of a failed save of the torrent store                        *)
(***************************************************************************)
\* C33: a save_torrent_info or delete_torrent_info whose _save_to_disk fails
\* ends without raising; the steps of a save, failed or not, leave _torrents
\* as the put or the delete made it, so that get_torrent_info and
\* get_all_torrents answer from it; and a save that succeeds leaves a
\* storage file that holds the whole of _torrents.
C33_MemoryAuthoritative ==
    /\ [](\A w \in Workers : worker[w].pc # "error")
    /\ [][\A w \in Workers :
            worker[w].pc \in {"dump", "check", "remove", "rename"} =>
                /\ torrents' = torrents
                /\ \A d \in DownloadIds : get_torrent_info(d)' = torrents[d]
                /\ worker'[w].pc \in {"dump", "check", "remove", "rename", "failed", "done", "idle"}
                /\ worker'[w].pc = "done" => storage_file' = save_to_disk(torrents')]_vars

\* a save has failed after os.remove: no storage file is left, while
\* _torrents holds a record
C33_Witness ==
    /\ worker[1].pc = "failed"
    /\ storage_file = NoFile
    /\ tmp_file.kind = "whole"
    /\ torrents # NoTorrents

(***************************************************************************)
(* Properties of handle_delete_event                                       *)
(***************************************************************************)
\* C34 as stated: handle_delete_event returns False exactly when the event
\* carries no media identifier or no record carries it, and True whenever a
\* record carries it, whatever the deletions do.
C34_TrueWheneverMatched ==
    [][(ret = NoRet /\ ret'.op = "delete") =>
        \A m \in {NoMediaId} \cup MediaIds :
            handle_delete_event(m) =>
                (ret'.result <=> (m # NoMediaId /\ found_torrents(m) # {}))]_vars

\* C34 as amended: handle_delete_event returns False when the media
\* identifier is missing or zero or when no record carries it, and then
\* changes nothing; when records carry it, it removes them all from the
\* store and returns True only if the client, where the API is enabled,
\* deleted every one of their torrents and none of their paths is left on
\* disk, and False only if some deletion by the client or some removal of a
\* path failed.
C34_FalseAlsoOnFailedDeletion ==
    [][(ret = NoRet /\ ret'.op = "delete") =>
        \A m \in {NoMediaId} \cup MediaIds :
            /\ DeleteRefused(m) => ~ret'.result
            /\ (MediaIdMissing(m) \/ found_torrents(m) = {}) =>
                    (handle_delete_event(m) => (~ret'.result /\ torrents' = torrents))
            /\ \A order \in Orders(found_torrents(m)) : \A up \in Ups :
               \A rmFailed \in SUBSET found_torrents(m) :
                    DeleteFound(m, order, up, rmFailed) =>
                        /\ \A h \in found_torrents(m) : torrents'[h] = NoRecord
                        /\ ret'.result =>
                            /\ ApiEnabled => \A h \in found_torrents(m) : delete_torrent([qbt |-> qbt], h, up)
                            /\ \A h \in found_torrents(m) : torrents[h].torrent_path \notin disk'
                        /\ ~ret'.result =>
                            \/ ApiEnabled /\ \E h \in found_torrents(m) : ~delete_torrent([qbt |-> qbt], h, up)
                            \/ rmFailed # {}]_vars

\* a Delete event found a record and removed it and its content, but the
\* client did not delete the torrent: the handler has returned False
C34_Witness ==
    /\ ret = [op |-> "delete", result |-> FALSE]
    /\ apiMode = "on"
    /\ \E d \in DownloadIds : qbt[d] = "completed" /\ ContentPath(d) \notin disk
    /\ torrents = NoTorrents
    /\ storage_file = save_to_disk(NoTorrents)

\* C35: a handle_delete_event removes from the disk only the content of the
\* downloads whose records it deletes: the download directory itself stays,
\* and so does the content of every other download.
C35_DeletesOnlyOwnContent ==
    [][(ret = NoRet /\ ret'.op = "delete") =>
        /\ Root \in disk => Root \in disk'
        /\ \A d \in DownloadIds :
            (ContentPath(d) \in disk /\ ContentPath(d) \notin disk')
                => (torrents[d] # NoRecord /\ torrents'[d] = NoRecord)]_vars

(***************************************************************************)
(* Properties of what a pass links                                         *)
(***************************************************************************)
\* C36: every file that a DownloadInfo records as processed, and every file
\* that a step links into the media folder while recording it, is content
\* of the download of that DownloadInfo.
C36_OnlyOwnFilesLinked ==
    /\ [](\A s \in SessionIds :
            info[s] # NoInfo => info[s].processed_files \subseteq {ContentPath(info[s].download_id)})
    /\ [][\A l \in dest' \ dest :
            \E s \in SessionIds :
                /\ info'[s] # NoInfo
                /\ l[1] = info'[s].media_folder
                /\ l[2] = ContentPath(info'[s].download_id)]_vars

(***************************************************************************)
(* Properties of the registry entry of a running thread                    *)
(***************************************************************************)
\* C37: from the start of a monitor thread until it pops the entry, the
\* entry of its download in active_downloads is the DownloadInfo that was
\* registered when the thread was started: the thread binds to it at its
\* first step, polls it, and pops that entry and no other at its end.
C37_EntryIsOwnSession ==
    /\ [](\A k \in SessionIds :
            pc[k] \in {"start", "loop", "body", "exit"} => active_downloads[ThreadArg(k)] = k)
    /\ [](\A k \in SessionIds :
            pc[k] \in {"loop", "body", "exit"} => download_info[k] = k)
    /\ [][\A k \in SessionIds :
            (pc[k] = "exit" /\ pc'[k] = "done")
                => (active_downloads[ThreadArg(k)] = k /\ active_downloads'[ThreadArg(k)] = NoSession)]_vars

(***************************************************************************)
(* Properties of the records and of the destinations                       *)
(***************************************************************************)
\* C38: every record that a step writes into the store carries a media
\* identifier that handle_delete_event accepts, so that a Delete event for
\* that identifier finds the record.
C38_RecordsCanBeDeleted ==
    [][\A d \in DownloadIds :
        (torrents'[d] # torrents[d] /\ torrents'[d] # NoRecord) =>
            ~MediaIdMissing(torrents'[d].media_id)]_vars

\* C39: every destination that _create_hardlink_with_structure creates or
\* accepts as already present is the file media_folder/relative_path, for
\* relative and absolute client file names and for walked files; a call never
\* reports success because the destination it computed is the source file.
C39_DestinationUnderMediaFolder ==
    (linking.done /\ linking.ok) => linking.dest_file = "media_folder/relative_path"

(***************************************************************************)
(* handle_delete_event and the DownloadInfo objects                        *)
(***************************************************************************)
\* C40: a step of handle_delete_event leaves active_downloads and every
\* DownloadInfo object as they were and moves no thread: the DownloadInfo of a
\* download whose record it deletes stays registered and active, and a thread
\* that is polling goes on polling.
C40_DeletionLeavesSessions ==
    [][(ret = NoRet /\ ret'.op = "delete") =>
          /\ active_downloads' = active_downloads
          /\ info' = info
          /\ pc' = pc
          /\ download_info' = download_info
          /\ check_count' = check_count]_vars

\* a Delete event has removed the record of a download whose DownloadInfo is
\* registered and active and whose thread is polling
C40_Witness ==
    /\ ret = [op |-> "delete", result |-> TRUE]
    /\ \E k \in SessionIds :
          /\ Registered(k)
          /\ Polling(k)
          /\ info[k].active
          /\ torrents[ThreadArg(k)] = NoRecord

====
